---- MODULE Spec2Model ----
(***************************************************************************)
(* CHIP-8 emulator (chip8.py): the machine object `chip8`, the cycles of    *)
(* the CPU loop (emulateCycle), the ticks of the timer loop                *)
(* (decrement_DT_ST) and the key events of the main loop.  The three       *)
(* threads hold no lock: every read and every write of a field another     *)
(* thread writes (DT, ST, KEYS) is a step of its own.                      *)
(*                                                                         *)
(* Python semantics that matter are kept: list indexing with negative      *)
(* indices, IndexError / KeyError raised in the middle of an instruction   *)
(* (the assignments made before the raise stay), slices clipped to the     *)
(* length of the bytearray, unbounded integers.                            *)
(***************************************************************************)
EXTENDS Integers, Sequences, FiniteSets, TLC

VARIABLES chip8, EmulationThread, prev, prev2, out, calls, ret, keyEvents,
          DtStThread, tmp, bEmulationThreadAbortQueue, bDtStThreadAbortQueue,
          driver, quitEvents, beep, rom_bytes, begun, k_, held

vars == <<chip8, EmulationThread, prev, prev2, out, calls, ret, keyEvents,
          DtStThread, tmp, bEmulationThreadAbortQueue, bDtStThreadAbortQueue,
          driver, quitEvents, beep, rom_bytes, begun, k_, held>>

\* what the cycles of the CPU loop record about themselves
cycleVars == <<prev, prev2, out, calls, ret, k_, held>>

\* the two abort queues
queueVars == <<bEmulationThreadAbortQueue, bDtStThreadAbortQueue>>

\* the timer thread: its position, its local value, the audio device
timerVars == <<DtStThread, tmp, beep>>

\* the main thread: its position and the events the operator still makes
driverVars == <<driver, keyEvents, quitEvents>>

----------------------------------------------------------------------------
(* Bounds of the model *)

\* number of key-down / key-up events the operator makes in a run of a ROM
\* that never looks at the keys
MaxKeyEvents == 2

\* number of key events in a run of a ROM that looks at the keys, and in a
\* run in which the window is closed
FewKeyEvents == 1

\* number of window-close events the operator makes in one run (the second
\* arrives in the same batch of events as the first)
MaxQuitEvents == 2

\* deepest recursion the recursive test ROM is asked for (depth+1 CALLs)
MaxDepth == 16

\* the index register is followed up to this value (Python integers have no
\* upper end); it lies beyond 0xFFFF
MaxI == 65600

----------------------------------------------------------------------------
(* Program constants *)

disp_w_px == 64
disp_h_px == 32
extra_w == 16
extra_h == 16
sprite_w == 8
MemSize == 4096
RomBase == 512
StackLen == 16

----------------------------------------------------------------------------
(* Integer helpers: Python's &, ^, <<, >> on non-negative integers *)

RECURSIVE BitAnd(_, _)
BitAnd(a, b) ==
    IF a = 0 \/ b = 0 THEN 0
    ELSE (a % 2) * (b % 2) + 2 * BitAnd(a \div 2, b \div 2)

RECURSIVE BitXor(_, _)
BitXor(a, b) ==
    IF a = 0 THEN b
    ELSE IF b = 0 THEN a
    ELSE ((a + b) % 2) + 2 * BitXor(a \div 2, b \div 2)

Pow2(i) == 2 ^ i

Shl(a, i) == a * Pow2(i)

Shr(a, i) == a \div Pow2(i)

SymDiff(A, B) == (A \ B) \cup (B \ A)

----------------------------------------------------------------------------
(* Construction: Chip8.__init__                                            *)

\* The bytearray mem is kept as its length and its nonzero bytes:
\* [len |-> number of cells, nz |-> the function from the addresses that hold
\* a nonzero byte to that byte].  Addresses count from 0.
MemOk(mem, a) == a >= 0 /\ a < mem.len

MemRead(mem, a) == IF a \in DOMAIN mem.nz THEN mem.nz[a] ELSE 0

MemWrite(mem, a, v) ==
    [mem EXCEPT !.nz =
        [b \in (IF v = 0 THEN DOMAIN mem.nz \ {a} ELSE DOMAIN mem.nz \cup {a})
            |-> IF b = a THEN v ELSE mem.nz[b]]]

\* the ROM placed at 0x200 without the zero bytes after it
LoadRom_nofill(rom) ==
    [len |-> RomBase + Len(rom),
     nz  |-> [a \in { RomBase + i - 1 : i \in { j \in 1..Len(rom) : rom[j] # 0 } }
                |-> rom[a - RomBase + 1]]]

\* mem = 0x200 zero bytes + rom + (0x1000 - len(rom) - 0x200) zero bytes;
\* a negative repeat count gives no bytes
LoadRom(rom) ==
    LET tail == MemSize - Len(rom) - RomBase
    IN [len |-> RomBase + Len(rom) + (IF tail > 0 THEN tail ELSE 0),
        nz  |-> [a \in { RomBase + i - 1 : i \in { j \in 1..Len(rom) : rom[j] # 0 } }
                   |-> rom[a - RomBase + 1]]]

\* DISPLAY is the set of cells <<row, col>> of the 48 x 80 array that are True
Chip8Init(rom) ==
    [ mem          |-> LoadRom(rom),
      V            |-> [i \in 0..15 |-> 0],
      KEYS         |-> [i \in 0..15 |-> FALSE],
      STACK        |-> [i \in 0..(StackLen - 1) |-> 0],
      DISPLAY      |-> {},
      I            |-> 0,
      SP           |-> 0,
      PC           |-> RomBase,
      DT           |-> 0,
      ST           |-> 0,
      bBeepPlaying |-> FALSE ]

----------------------------------------------------------------------------
(* emulateCycle: the result of an instruction is the machine after it and  *)
(* how control leaves the if/elif chain:                                   *)
(*   "next"       falls through to the final  self.PC += 2                 *)
(*   "return"     an explicit return (JP, CALL, Fx0A without a key)        *)
(*   "scan"       Fx0A is in its loop over the keys                        *)
(*   "IndexError" / "KeyError"   the exception that ends the cycle         *)
(*   "pdb"        the else branch stopped in pdb.set_trace()               *)

Flow(c, f) == [c |-> c, flow |-> f]

\* a Python list of length len accepts the indices -len .. len-1
ListIndexOk(i, len) == i >= -len /\ i <= len - 1

ListIndex(i, len) == IF i < 0 THEN i + len ELSE i

\* self.mem[a:b] for 0 <= a <= b: the bytes at a .. b-1 that exist (a slice
\* is clipped to the length, it never raises)
MemSlice(mem, a, b) ==
    LET stop == IF b < mem.len THEN b ELSE mem.len
    IN IF stop <= a THEN << >>
       ELSE [i \in 1..(stop - a) |-> MemRead(mem, a + i - 1)]

CLS(c) == Flow([c EXCEPT !.DISPLAY = {}], "next")

SYS(c) == Flow(c, "next")

\* RET as the explicit-return branches are written: PC is set and the cycle
\* returns, without the common PC += 2
RET_exact(c) ==
    IF ~ListIndexOk(c.SP, StackLen) THEN Flow(c, "IndexError")
    ELSE Flow([c EXCEPT !.PC = c.STACK[ListIndex(c.SP, StackLen)],
                        !.SP = c.SP - 1], "return")

RET(c) ==
    IF ~ListIndexOk(c.SP, StackLen) THEN Flow(c, "IndexError")
    ELSE Flow([c EXCEPT !.PC = c.STACK[ListIndex(c.SP, StackLen)],
                        !.SP = c.SP - 1], "next")

JP(c, nnn) == Flow([c EXCEPT !.PC = nnn], "return")

CALL(c, nnn) ==
    LET c1 == [c EXCEPT !.SP = c.SP + 1]
    IN IF ~ListIndexOk(c1.SP, StackLen) THEN Flow(c1, "IndexError")
       ELSE Flow([c1 EXCEPT !.STACK[ListIndex(c1.SP, StackLen)] = c.PC,
                            !.PC = nnn], "return")

SE(c, x, kk) ==
    Flow(IF c.V[x] = kk THEN [c EXCEPT !.PC = c.PC + 2] ELSE c, "next")

SNE(c, x, kk) ==
    Flow(IF c.V[x] # kk THEN [c EXCEPT !.PC = c.PC + 2] ELSE c, "next")

LD_Vx_byte(c, x, kk) == Flow([c EXCEPT !.V[x] = kk], "next")

ADD_Vx_byte(c, x, kk) == Flow([c EXCEPT !.V[x] = (c.V[x] + kk) % 256], "next")

LD_Vx_Vy(c, x, y) == Flow([c EXCEPT !.V[x] = c.V[y]], "next")

AND_Vx_Vy(c, x, y) == Flow([c EXCEPT !.V[x] = BitAnd(c.V[x], c.V[y])], "next")

XOR_Vx_Vy(c, x, y) == Flow([c EXCEPT !.V[x] = BitXor(c.V[x], c.V[y])], "next")

\* 8xy4 in the order of 8xy5: VF is written first, the sum reads V[x] and
\* V[y] after that
ADD_Vx_Vy_flagfirst(c, x, y) ==
    LET c1 == [c EXCEPT !.V[15] = IF c.V[x] + c.V[y] > 255 THEN 1 ELSE 0]
    IN Flow([c1 EXCEPT !.V[x] = (c1.V[x] + c1.V[y]) % 256], "next")

\* sum is computed first, then VF is written, then Vx
ADD_Vx_Vy(c, x, y) ==
    LET sum == c.V[x] + c.V[y]
        c1 == [c EXCEPT !.V[15] = IF sum > 255 THEN 1 ELSE 0]
    IN Flow([c1 EXCEPT !.V[x] = sum % 256], "next")

\* VF is written first; the subtraction reads V[x] and V[y] after that
SUB_Vx_Vy(c, x, y) ==
    LET c1 == [c EXCEPT !.V[15] = IF c.V[x] > c.V[y] THEN 1 ELSE 0]
    IN Flow([c1 EXCEPT !.V[x] = (c1.V[x] - c1.V[y]) % 256], "next")

SHR_Vx(c, x) ==
    LET c1 == [c EXCEPT !.V[15] = IF c.V[x] % 2 = 1 THEN 1 ELSE 0]
    IN Flow([c1 EXCEPT !.V[x] = Shr(c1.V[x], 1)], "next")

LD_I(c, nnn) == Flow([c EXCEPT !.I = nnn], "next")

RND(c, x, kk, rr) == Flow([c EXCEPT !.V[x] = BitAnd(rr, kk)], "next")

\* "{:8b}".format(sprite_byte), compared character by character with '1':
\* position j (0 = leftmost of the 8) is True when bit 7-j of the byte is set
SpriteBit(sprite_byte, j) == (Shr(sprite_byte, 7 - j) % 2) = 1

\* print_sprites with |= in place of ^=
print_sprites_or(DISPLAY, sprite_byte_list, Vx, Vy) ==
    DISPLAY \cup
        { <<(Vy % disp_h_px) + (i - 1), (Vx % disp_w_px) + j>> :
            <<i, j>> \in { p \in (1..Len(sprite_byte_list)) \X (0..7) :
                             SpriteBit(sprite_byte_list[p[1]], p[2]) } }

\* print_sprites: row Vy%h + index, columns Vx%w .. Vx%w+7, XORed in place
\* (each index has its own row, so the loop is one symmetric difference)
print_sprites(DISPLAY, sprite_byte_list, Vx, Vy) ==
    SymDiff(DISPLAY,
            { <<(Vy % disp_h_px) + (i - 1), (Vx % disp_w_px) + j>> :
                <<i, j>> \in { p \in (1..Len(sprite_byte_list)) \X (0..7) :
                                 SpriteBit(sprite_byte_list[p[1]], p[2]) } })

\* DISPLAY[:disp_h_px, :disp_w_px]
Visible(DISPLAY) ==
    { p \in DISPLAY : p[1] < disp_h_px /\ p[2] < disp_w_px }

\* the vertical wrap pass
wrap_h(DISPLAY, sprite_byte_list, Vx, Vy, n) ==
    IF (disp_h_px - (Vy % disp_h_px)) < n
    THEN LET mm == n - (disp_h_px - (Vy % disp_h_px))
             wrap_spr_h_list == SubSeq(sprite_byte_list, mm + 1,
                                       Len(sprite_byte_list))
         IN print_sprites(DISPLAY, wrap_spr_h_list, Vx, 0)
    ELSE DISPLAY

\* the horizontal wrap pass without the shift of the sprite bytes
wrap_w_unshifted(DISPLAY, sprite_byte_list, Vx, Vy) ==
    IF (disp_w_px - (Vx % disp_w_px)) < sprite_w
    THEN print_sprites(DISPLAY, sprite_byte_list, 0, Vy)
    ELSE DISPLAY

\* the horizontal wrap pass
wrap_w(DISPLAY, sprite_byte_list, Vx, Vy) ==
    IF (disp_w_px - (Vx % disp_w_px)) < sprite_w
    THEN LET ii == disp_w_px - (Vx % disp_w_px)
             wrap_spr_w_list ==
                 [i \in 1..Len(sprite_byte_list) |->
                     Shl(sprite_byte_list[i], ii) % 256]
         IN print_sprites(DISPLAY, wrap_spr_w_list, 0, Vy)
    ELSE DISPLAY

\* the erase test taken over the whole buffer, padding included
Erased_whole(DISPLAY_OLD, DISPLAY) ==
    \E p \in DISPLAY_OLD : p \notin DISPLAY

\* "any pixel was erased": old visible cell that is not set any more
Erased(DISPLAY_OLD, DISPLAY) ==
    \E p \in Visible(DISPLAY_OLD) : p \notin Visible(DISPLAY)

\* DRW without the reset of VF before the draw
DRW_keepVF(c, x, y, n) ==
    LET Vx == c.V[x]
        Vy == c.V[y]
        sprite_byte_list == MemSlice(c.mem, c.I, c.I + n)
        DISPLAY_OLD == c.DISPLAY
        D1 == print_sprites(c.DISPLAY, sprite_byte_list, Vx, Vy)
        D2 == wrap_h(D1, sprite_byte_list, Vx, Vy, n)
        D3 == wrap_w(D2, sprite_byte_list, Vx, Vy)
    IN Flow([c EXCEPT !.DISPLAY = D3,
                      !.V[15] = IF Erased(DISPLAY_OLD, D3) THEN 1 ELSE c.V[15]],
            "next")

DRW(c, x, y, n) ==
    LET Vx == c.V[x]
        Vy == c.V[y]
        sprite_byte_list == MemSlice(c.mem, c.I, c.I + n)
        DISPLAY_OLD == c.DISPLAY
        D1 == print_sprites(c.DISPLAY, sprite_byte_list, Vx, Vy)
        D2 == wrap_h(D1, sprite_byte_list, Vx, Vy, n)
        D3 == wrap_w(D2, sprite_byte_list, Vx, Vy)
    IN Flow([c EXCEPT !.DISPLAY = D3,
                      !.V[15] = IF Erased(DISPLAY_OLD, D3) THEN 1 ELSE 0],
            "next")

\* self.KEYS is a dict with the keys 0..15: any other key raises KeyError
SKP(c, x) ==
    IF c.V[x] \notin DOMAIN c.KEYS THEN Flow(c, "KeyError")
    ELSE Flow(IF c.KEYS[c.V[x]] THEN [c EXCEPT !.PC = c.PC + 2] ELSE c,
              "next")

SKNP(c, x) ==
    IF c.V[x] \notin DOMAIN c.KEYS THEN Flow(c, "KeyError")
    ELSE Flow(IF ~c.KEYS[c.V[x]] THEN [c EXCEPT !.PC = c.PC + 2] ELSE c,
              "next")

LD_Vx_DT(c, x) == Flow([c EXCEPT !.V[x] = c.DT], "next")

\* Fx0A falling through to PC += 2 when the loop ends without a key
LD_Vx_K_advance(c, x, k) ==
    IF c.KEYS[k] THEN Flow([c EXCEPT !.V[x] = k], "next")
    ELSE IF k < 15 THEN Flow(c, "scan")
    ELSE Flow(c, "next")

\* one pass of the for/else over the dict (insertion order 0..15) with
\* k_ = k: self.KEYS[k_] is read; a pressed key breaks out of the loop and
\* is stored in Vx, an unpressed one goes on to the next key ("scan"), and
\* after the last key the else branch returns.  The main thread writes KEYS
\* between two passes
LD_Vx_K(c, x, k) ==
    IF c.KEYS[k] THEN Flow([c EXCEPT !.V[x] = k], "next")
    ELSE IF k < 15 THEN Flow(c, "scan")
    ELSE Flow(c, "return")

LD_DT_Vx(c, x) == Flow([c EXCEPT !.DT = c.V[x]], "next")

LD_ST_Vx(c, x) == Flow([c EXCEPT !.ST = c.V[x]], "next")

ADD_I_Vx(c, x) == Flow([c EXCEPT !.I = c.I + c.V[x]], "next")

\* three stores in order; the first index that does not exist raises and
\* the stores before it stay
LD_B_Vx(c, x) ==
    IF ~MemOk(c.mem, c.I) THEN Flow(c, "IndexError")
    ELSE LET c1 == [c EXCEPT !.mem = MemWrite(c.mem, c.I, c.V[x] \div 100)]
         IN IF ~MemOk(c.mem, c.I + 1) THEN Flow(c1, "IndexError")
            ELSE LET c2 == [c1 EXCEPT !.mem = MemWrite(c1.mem, c.I + 1,
                                                       c.V[x] \div 10)]
                 IN IF ~MemOk(c.mem, c.I + 2) THEN Flow(c2, "IndexError")
                    ELSE Flow([c2 EXCEPT !.mem = MemWrite(c2.mem, c.I + 2,
                                                          c.V[x] % 10)],
                              "next")

\* for loc in range(x+1): V[loc] = mem[I + loc]; the loads before the first
\* missing index stay
LD_Vx_I(c, x) ==
    LET ok == { loc \in 0..x : \A l \in 0..loc : MemOk(c.mem, c.I + l) }
        c1 == [c EXCEPT !.V = [r \in 0..15 |->
                                 IF r \in ok THEN MemRead(c.mem, c.I + r)
                                 ELSE c.V[r]]]
    IN Flow(c1, IF ok = 0..x THEN "next" ELSE "IndexError")

\* the if/elif chain, in the order of the source
Execute(c, w, rr) ==
    LET n3  == Shr(w, 12) % 16
        x   == Shr(w, 8) % 16
        y   == Shr(w, 4) % 16
        n   == w % 16
        kk  == w % 256
        nnn == w % 4096
    IN IF n3 = 0 /\ nnn = 224 THEN CLS(c)
       ELSE IF n3 = 0 /\ nnn # 238 THEN SYS(c)
       ELSE IF n3 = 0 /\ nnn = 238 THEN RET(c)
       ELSE IF n3 = 1 THEN JP(c, nnn)
       ELSE IF n3 = 2 THEN CALL(c, nnn)
       ELSE IF n3 = 3 THEN SE(c, x, kk)
       ELSE IF n3 = 4 THEN SNE(c, x, kk)
       ELSE IF n3 = 6 THEN LD_Vx_byte(c, x, kk)
       ELSE IF n3 = 7 THEN ADD_Vx_byte(c, x, kk)
       ELSE IF n3 = 8 /\ n = 0 THEN LD_Vx_Vy(c, x, y)
       ELSE IF n3 = 8 /\ n = 2 THEN AND_Vx_Vy(c, x, y)
       ELSE IF n3 = 8 /\ n = 3 THEN XOR_Vx_Vy(c, x, y)
       ELSE IF n3 = 8 /\ n = 4 THEN ADD_Vx_Vy(c, x, y)
       ELSE IF n3 = 8 /\ n = 5 THEN SUB_Vx_Vy(c, x, y)
       ELSE IF n3 = 8 /\ n = 6 THEN SHR_Vx(c, x)
       ELSE IF n3 = 10 THEN LD_I(c, nnn)
       ELSE IF n3 = 12 THEN RND(c, x, kk, rr)
       ELSE IF n3 = 13 THEN DRW(c, x, y, n)
       ELSE IF n3 = 14 /\ kk = 158 THEN SKP(c, x)
       ELSE IF n3 = 14 /\ kk = 161 THEN SKNP(c, x)
       ELSE IF n3 = 15 /\ kk = 7 THEN LD_Vx_DT(c, x)
       ELSE IF n3 = 15 /\ kk = 10 THEN Flow(c, "scan")
       ELSE IF n3 = 15 /\ kk = 21 THEN LD_DT_Vx(c, x)
       ELSE IF n3 = 15 /\ kk = 24 THEN LD_ST_Vx(c, x)
       ELSE IF n3 = 15 /\ kk = 30 THEN ADD_I_Vx(c, x)
       ELSE IF n3 = 15 /\ kk = 51 THEN LD_B_Vx(c, x)
       ELSE IF n3 = 15 /\ kk = 101 THEN LD_Vx_I(c, x)
       ELSE Flow(c, "pdb")

\* w = (mem[PC] << 8) + mem[PC+1]; PC is never negative
FetchOk(c) == MemOk(c.mem, c.PC) /\ MemOk(c.mem, c.PC + 1)

Fetch(c) == Shl(MemRead(c.mem, c.PC), 8) + MemRead(c.mem, c.PC + 1)

\* one call of emulateCycle, up to the loop over the keys when the word is
\* Fx0A; rr is the byte random.randint would return
emulateCycle(c, rr) ==
    IF ~FetchOk(c) THEN Flow(c, "IndexError")
    ELSE LET r == Execute(c, Fetch(c), rr)
         IN IF r.flow = "next"
            THEN Flow([r.c EXCEPT !.PC = r.c.PC + 2], "next")
            ELSE r

\* if not self.bBeepPlaying: beep.play(loops = -1) without its test
beep_play_unguarded(c) ==
    [c |-> [c EXCEPT !.bBeepPlaying = TRUE], call |-> "play"]

\* if not self.bBeepPlaying: beep.play(loops = -1); self.bBeepPlaying = True
\* (the machine after it and the call made on the Sound, "none" for no call)
beep_play(c) ==
    IF ~c.bBeepPlaying
    THEN [c |-> [c EXCEPT !.bBeepPlaying = TRUE], call |-> "play"]
    ELSE [c |-> c, call |-> "none"]

\* if self.bBeepPlaying: beep.stop(); self.bBeepPlaying = False
beep_stop(c) ==
    IF c.bBeepPlaying
    THEN [c |-> [c EXCEPT !.bBeepPlaying = FALSE], call |-> "stop"]
    ELSE [c |-> c, call |-> "none"]

----------------------------------------------------------------------------
(* ROM images the machine is constructed from                              *)

Op(n3, x, y, n) == n3 * 4096 + x * 256 + y * 16 + n

OpKK(n3, x, kk) == n3 * 4096 + x * 256 + kk

OpNNN(n3, nnn) == n3 * 4096 + nnn

\* big-endian bytes of a sequence of instruction words
WordsToBytes(ws) ==
    [i \in 1..(2 * Len(ws)) |->
        IF i % 2 = 1 THEN ws[(i + 1) \div 2] \div 256 ELSE ws[i \div 2] % 256]

Zeros(k) == [i \in 1..k |-> 0]

\* the word that draws a random byte
RndWord == OpKK(12,0,255)

\* instruction words tried one at a time: every class of the if/elif chain
\* (RET is in the stack ROMs), both outcomes of each skip, and words no
\* branch accepts
TestWords ==
    { Op(0,0,14,0), Op(0,0,0,0), Op(0,1,2,3),
      OpNNN(1,520), OpNNN(2,520),
      OpKK(3,0,1), OpKK(4,0,1), OpKK(6,10,18), OpKK(7,0,255),
      Op(8,0,1,0), Op(8,0,1,2), Op(8,0,1,3), Op(8,0,1,4), Op(8,0,1,5),
      Op(8,0,1,6), Op(8,15,1,4), Op(8,15,1,5), Op(8,0,15,5), Op(8,15,1,6),
      Op(8,0,1,7), Op(8,0,1,14), Op(5,0,1,0), Op(9,0,1,0), OpNNN(11,520),
      OpNNN(10,291), RndWord, Op(13,0,1,1),
      OpKK(14,0,158), OpKK(14,0,161), OpKK(14,0,0),
      OpKK(15,0,7), OpKK(15,0,10), OpKK(15,1,21), OpKK(15,1,24),
      OpKK(15,0,30), OpKK(15,0,51), OpKK(15,1,101), OpKK(15,0,85),
      OpKK(15,0,0) }

\* the words that look at one key, once
KeyWords == { OpKK(14,0,158), OpKK(14,0,161) }

\* the words of the runs in which the operator closes the window: the two
\* timer writes, a word no branch accepts, and the wait for a key
QuitWords == { OpKK(15,1,24), OpKK(15,1,21), Op(5,0,1,0), OpKK(15,0,10) }

TestValues == {0, 1, 16, 255}

\* 0x200: LD V0,vv  0x202: LD V1,5  0x204: w  0x206: JP 0x206  0x208: JP 0x208
InstrRom(vv, w) ==
    WordsToBytes(<<OpKK(6,0,vv), OpKK(6,1,5), w, OpNNN(1,518), OpNNN(1,520)>>)

\* f(V0): 0x200 LD V0,dd  0x202 CALL f  0x204 JP 0x204
\*        f = 0x206: SE V0,0  0x208 JP 0x20C  0x20A RET
\*        0x20C ADD V0,0xFF  0x20E CALL f  0x210 RET
RecurseRom(dd) ==
    WordsToBytes(<<OpKK(6,0,dd), OpNNN(2,518), OpNNN(1,516),
                   OpKK(3,0,0), OpNNN(1,524), Op(0,0,14,14),
                   OpKK(7,0,255), OpNNN(2,518), Op(0,0,14,14)>>)

\* 0x200 CALL 0x200
SelfCallRom == WordsToBytes(<<OpNNN(2,512)>>)

\* 0x200 CALL 0x204  0x202 JP 0x200  0x204 RET
CallRetLoopRom ==
    WordsToBytes(<<OpNNN(2,516), OpNNN(1,512), Op(0,0,14,14)>>)

\* 0x200 RET on the empty stack
RetFirstRom == WordsToBytes(<<Op(0,0,14,14)>>)

\* 0x200 SNE V0,0  0x202 JP 0x208  0x204 CALL 0x20C  0x206 JP 0x206
\* 0x208 LD V0,1   0x20A RET (unmatched)             0x20C RET
NegSpRom ==
    WordsToBytes(<<OpKK(4,0,0), OpNNN(1,520), OpNNN(2,524), OpNNN(1,518),
                   OpKK(6,0,1), Op(0,0,14,14), Op(0,0,14,14)>>)

\* two RETs on the empty stack, then f(16):
\* 0x200 SE V0,0  0x202 JP 0x208  0x204 LD V0,1  0x206 RET
\* 0x208 SE V0,1  0x20A JP 0x210  0x20C LD V0,2  0x20E RET
\* 0x210 LD V0,16 0x212 CALL f    0x214 JP 0x214
\* f = 0x216: SE V0,0  0x218 JP 0x21C  0x21A RET
\*      0x21C ADD V0,0xFF  0x21E CALL f  0x220 RET
DeepNegRom ==
    WordsToBytes(<<OpKK(3,0,0), OpNNN(1,520), OpKK(6,0,1), Op(0,0,14,14),
                   OpKK(3,0,1), OpNNN(1,528), OpKK(6,0,2), Op(0,0,14,14),
                   OpKK(6,0,16), OpNNN(2,534), OpNNN(1,532),
                   OpKK(3,0,0), OpNNN(1,540), Op(0,0,14,14),
                   OpKK(7,0,255), OpNNN(2,534), Op(0,0,14,14)>>)

StackRoms ==
    { RecurseRom(dd) : dd \in 0..MaxDepth }
        \cup { SelfCallRom, CallRetLoopRom, RetFirstRom, NegSpRom,
               DeepNegRom }

\* sprite byte r of pattern p
SpritePat(p, r) ==
    IF p = 0 THEN 0
    ELSE IF p = 1 THEN 255
    ELSE IF p = 2 THEN (145 + 37 * r) % 256
    ELSE 15

DrawVx == {0, 5, 57, 60, 124, 255}

DrawVy == {0, 3, 18, 30, 31, 63}

DrawN == {0, 1, 2, 3, 8, 15}

\* 0x200 LD Vx,vx  0x202 LD V1,vy
\* 0x204 LD I,0x230 ; 0x206 DRW V2,V3,15   (prior = 1: a solid 8 x 15 block
\*                                          at the origin) or two SYS words
\* 0x208 LD I,0x220  0x20A DRW Vx,V1,n  0x20C DRW Vx,V1,n  0x20E JP 0x20E
\* 0x220: 15 bytes of pattern p      0x230: 15 bytes 0xFF
DrawRom(xr, vx, vy, n, p, prior) ==
    WordsToBytes(<<OpKK(6,xr,vx), OpKK(6,1,vy),
                   IF prior = 1 THEN OpNNN(10,560) ELSE 0,
                   IF prior = 1 THEN Op(13,2,3,15) ELSE 0,
                   OpNNN(10,544), Op(13,xr,1,n), Op(13,xr,1,n),
                   OpNNN(1,526)>>)
      \o Zeros(16)
      \o [r \in 1..15 |-> SpritePat(p, r - 1)] \o Zeros(1)
      \o [r \in 1..15 |-> 255]

DrawRoms ==
    { DrawRom(0, vx, vy, n, p, prior) :
        vx \in DrawVx, vy \in DrawVy, n \in DrawN,
        p \in {1, 2}, prior \in {0, 1} }
      \cup { DrawRom(0, vx, vy, 15, 0, 1) : vx \in {0, 60}, vy \in {0, 30} }
      \cup { DrawRom(0, 60, 0, n, 3, 1) : n \in {1, 8} }
      \cup { DrawRom(15, vx, vy, n, 2, prior) :
               vx \in {0, 60}, vy \in {0, 30}, n \in {3, 8}, prior \in {0, 1} }

\* 0x200 LD V3,7  0x202 LD V3,K  0x204 JP 0x204
WaitKeyRom == WordsToBytes(<<OpKK(6,3,7), OpKK(15,3,10), OpNNN(1,516)>>)

\* 0x200 LD I,0xFFE  0x202 LD V0,255  0x204 LD B,V0
BcdEdgeRom == WordsToBytes(<<OpNNN(10,4094), OpKK(6,0,255), OpKK(15,0,51)>>)

\* 0x200 LD I,0xFFF  0x202 LD V1,[I]
LoadEdgeRom == WordsToBytes(<<OpNNN(10,4095), OpKK(15,1,101)>>)

\* 0x200 JP 0xFFF
JumpEdgeRom == WordsToBytes(<<OpNNN(1,4095)>>)

\* 0x200 LD I,0xFFD  0x202 LD V0,255  0x204 LD B,V0  0x206 LD I,0xFFE
\* 0x208 DRW V1,V1,3  0x20A DRW V1,V1,3  0x20C JP 0x20C
DrawEdgeRom ==
    WordsToBytes(<<OpNNN(10,4093), OpKK(6,0,255), OpKK(15,0,51),
                   OpNNN(10,4094), Op(13,1,1,3), Op(13,1,1,3),
                   OpNNN(1,524)>>)

EdgeRoms == { BcdEdgeRom, LoadEdgeRom, JumpEdgeRom, DrawEdgeRom }

\* the shortest and the longest ROM that fit: no byte at all (the machine
\* runs through zero words up to the end of memory), and 3584 bytes,
\* JP 0x200 first and a nonzero byte last, at 0xFFF
EmptyRom == << >>

MaxRomLen == MemSize - RomBase

FullRom ==
    WordsToBytes(<<OpNNN(1,512)>>) \o Zeros(MaxRomLen - 3) \o <<7>>

SizeRoms == { EmptyRom, FullRom }

\* 0x200 JP 0x200
SpinRom == WordsToBytes(<<OpNNN(1,512)>>)

\* 0x200 LD V0,255  0x202 LD I,0xFFF  0x204 ADD I,V0  0x206 JP 0x204
IndexRom ==
    WordsToBytes(<<OpKK(6,0,255), OpNNN(10,4095), OpKK(15,0,30),
                   OpNNN(1,516)>>)

\* the operand values of the addition ROMs
ArithValues == {1, 10, 245, 250, 255}

\* 0x200 LD Vx,a  0x202 LD Vy,b  0x204 ADD Vx,Vy  0x206 JP 0x206
AddRom(x, y, a, b) ==
    WordsToBytes(<<OpKK(6,x,a), OpKK(6,y,b), Op(8,x,y,4), OpNNN(1,518)>>)

\* x in {0, 14}; y another register, VF, or x itself
AddRoms ==
    { AddRom(x, y, a, b) :
        x \in {0, 14}, y \in {1, 14, 15}, a \in ArithValues, b \in ArithValues }

\* the values the timer ROM loads into the timers
TimerValues == {1, 2}

\* 0x200 LD V0,vv  0x202 LD DT,V0  0x204 LD ST,V0  0x206 LD DT,V1 (= 0)
\* 0x208 LD ST,V1  0x20A LD V2,DT  0x20C JP 0x20C
TimerRom(vv) ==
    WordsToBytes(<<OpKK(6,0,vv), OpKK(15,0,21), OpKK(15,0,24),
                   OpKK(15,1,21), OpKK(15,1,24), OpKK(15,2,7),
                   OpNNN(1,524)>>)

TimerRoms == { TimerRom(vv) : vv \in TimerValues }

\* a run: the ROM, the number of key events and the number of window-close
\* events the operator makes during it.  The word that overwrites V0 with a
\* random byte is run for one value of V0; the keys are touched where V0
\* names a key the operator has
Scenarios ==
    { [rom |-> InstrRom(p[1], p[2]),
       keys |-> IF p[2] \in KeyWords /\ p[1] = 1 THEN FewKeyEvents ELSE 0,
       quit |-> IF p[2] \in QuitWords /\ p[1] = 1 THEN 1 ELSE 0] :
         p \in { q \in TestValues \X TestWords : q[2] = RndWord => q[1] = 0 } }
      \cup { [rom |-> r, keys |-> 0, quit |-> 0] :
                r \in StackRoms \cup DrawRoms \cup EdgeRoms \cup AddRoms
                        \cup SizeRoms \cup {IndexRom} \cup TimerRoms }
      \cup { [rom |-> WaitKeyRom, keys |-> FewKeyEvents, quit |-> 0] }
      \cup { [rom |-> JumpEdgeRom, keys |-> MaxKeyEvents, quit |-> 0] }
      \cup { [rom |-> SpinRom, keys |-> 0, quit |-> q] :
                q \in 1..MaxQuitEvents }
      \cup { [rom |-> SpinRom, keys |-> FewKeyEvents, quit |-> 1] }

\* the keys of the key map of the main loop (16 characters, one for each of
\* the keys 0..15), and the bytes random.randint(0, 0xFF) returns
KeysUsed == 0..15

RndValues == 0..255

----------------------------------------------------------------------------
(* The state machine                                                       *)
(*   chip8            the Chip8 instance                                   *)
(*   EmulationThread  the CPU thread: "running" (at the top of its loop),  *)
(*                    "polled" (found its abort queue empty), "scan" (in   *)
(*                    the loop over the keys of Fx0A), "pdb"               *)
(*                    (stopped at the debugger prompt of the else branch), *)
(*                    "exited" (left the loop on an abort) or "dead"       *)
(*                    (ended by an exception)                              *)
(*   prev, out        the machine as the last cycle found it, and how that *)
(*                    cycle left the if/elif chain ("none" before the      *)
(*                    first cycle)                                         *)
(*   prev2            the machine as the cycle before that one found it:   *)
(*                    the fields the CPU thread writes (the others blank)  *)
(*   k_               the key the loop of Fx0A reads next                  *)
(*   held             when the last cycle was an Fx0A: the keys that were  *)
(*                    down at some instant of it (any) and at every        *)
(*                    instant of it (all); empty sets otherwise            *)
(*   calls            the CALLs that have not returned yet, innermost      *)
(*                    last: the address a of the CALL and the stack        *)
(*                    pointer s it found                                   *)
(*   ret              << the entry of calls the last cycle's RET matched >>*)
(*                    or << >>                                             *)
(*   keyEvents        key events the operator still makes                  *)
(*   quitEvents       window-close events the operator still makes         *)
(*   DtStThread       the timer thread: "loop" (at the top of its loop),   *)
(*                    "polled", a position inside decrement_DT_ST, or      *)
(*                    "exited"                                             *)
(*   tmp              the value the timer thread has loaded for  -= 1      *)
(*   bEmulationThreadAbortQueue, bDtStThreadAbortQueue                     *)
(*                    the contents of the two queue.Queue objects          *)
(*   driver           the main thread: "playing" (in its event loop), a    *)
(*                    position inside stopAllThreads, or "stopped"         *)
(*                    (stopAllThreads has returned)                        *)
(*   begun            how many times each loop has begun emulateCycle /    *)
(*                    decrement_DT_ST after abortAllThreads had put the    *)
(*                    signal in its queue (counted up to 2)                *)
(*   rom_bytes        the bytes of the ROM file the machine was built from *)
(*   beep             the pygame Sound: whether it is playing, the call    *)
(*                    the last timer step made on it ("play", "stop" or    *)
(*                    "none") and whether it was playing before that step  *)

Start(sc) ==
    \E c \in {Chip8Init(sc.rom)} :
        /\ rom_bytes = sc.rom
        /\ begun = [cpu |-> 0, timer |-> 0]
        /\ chip8 = c
        /\ prev = c
        /\ prev2 = c
        /\ calls = << >>
        /\ ret = << >>
        /\ keyEvents = sc.keys
        /\ quitEvents = sc.quit
        /\ out = "none"
        /\ EmulationThread = "running"
        /\ DtStThread = "loop"
        /\ tmp = 0
        /\ bEmulationThreadAbortQueue = << >>
        /\ bDtStThreadAbortQueue = << >>
        /\ driver = "playing"
        /\ beep = [playing |-> FALSE, call |-> "none", before |-> FALSE]
        /\ k_ = 0
        /\ held = [any |-> {}, all |-> {}]

Init == \E sc \in Scenarios : Start(sc)

\* the word the next cycle fetches is 2nnn / 00EE
IsCall(c) == FetchOk(c) /\ Shr(Fetch(c), 12) = 2

IsRet(c) == FetchOk(c) /\ Fetch(c) = 238

\* the bytes random.randint may return in this cycle (one value stands for
\* all when the fetched word is not RND, which alone reads it)
RndChoices(c) ==
    IF FetchOk(c) /\ Shr(Fetch(c), 12) = 12 THEN RndValues ELSE {0}

\* the keys that are down
Pressed(keys) == { k \in DOMAIN keys : keys[k] }

\* the word the next cycle fetches is Fx0A
IsScan(c) ==
    FetchOk(c) /\ Shr(Fetch(c), 12) = 15 /\ Fetch(c) % 256 = 10

\* machine c with the fields the CPU thread does not write made blank
CpuOnly(c) ==
    [c EXCEPT !.KEYS = [i \in 0..15 |-> FALSE], !.DT = 0, !.ST = 0,
              !.bBeepPlaying = FALSE]

\* the poll of runEmulationThread taking the item off the queue without
\* leaving the loop
EmulationPoll_nobreak ==
    /\ EmulationThread = "running"
    /\ IF bEmulationThreadAbortQueue # << >>
       THEN bEmulationThreadAbortQueue' = Tail(bEmulationThreadAbortQueue)
       ELSE UNCHANGED bEmulationThreadAbortQueue
    /\ EmulationThread' = "polled"
    /\ UNCHANGED <<chip8, cycleVars, bDtStThreadAbortQueue, timerVars,
                   driverVars, rom_bytes, begun>>

\* the top of the while loop of runEmulationThread: get(block = False) on the
\* abort queue; a true item breaks out of the loop, queue.Empty goes on
EmulationPoll ==
    /\ EmulationThread = "running"
    /\ IF bEmulationThreadAbortQueue # << >>
       THEN /\ bEmulationThreadAbortQueue' = Tail(bEmulationThreadAbortQueue)
            /\ EmulationThread' = IF Head(bEmulationThreadAbortQueue)
                                  THEN "exited" ELSE "polled"
       ELSE /\ EmulationThread' = "polled"
            /\ UNCHANGED bEmulationThreadAbortQueue
    /\ UNCHANGED <<chip8, cycleVars, bDtStThreadAbortQueue, timerVars,
                   driverVars>>
    /\ UNCHANGED rom_bytes
    /\ UNCHANGED begun

\* the rest of the iteration when the clock period has not elapsed: sleep
EmulationSleep ==
    /\ EmulationThread = "polled"
    /\ EmulationThread' = "running"
    /\ UNCHANGED <<chip8, cycleVars, queueVars, timerVars, driverVars>>
    /\ UNCHANGED rom_bytes
    /\ UNCHANGED begun

\* the rest of the iteration when the clock period has elapsed:
\* emulateCycle, to its end or, for Fx0A, up to its loop over the keys
Cycle ==
    /\ EmulationThread = "polled"
    /\ chip8.I <= MaxI
    /\ \E rr \in RndChoices(chip8) :
          \E r \in {emulateCycle(chip8, rr)} :
             /\ chip8' = r.c
             /\ out' = r.flow
             /\ EmulationThread' =
                   IF r.flow \in {"IndexError", "KeyError"} THEN "dead"
                   ELSE IF r.flow = "pdb" THEN "pdb"
                   ELSE IF r.flow = "scan" THEN "scan"
                   ELSE "running"
             /\ calls' = IF IsCall(chip8) /\ r.flow = "return"
                         THEN Append(calls, [a |-> chip8.PC, s |-> chip8.SP])
                         ELSE IF IsRet(chip8) /\ r.flow = "next" /\ calls # << >>
                         THEN SubSeq(calls, 1, Len(calls) - 1)
                         ELSE calls
             /\ ret' = IF IsRet(chip8) /\ r.flow = "next" /\ calls # << >>
                       THEN <<calls[Len(calls)]>>
                       ELSE << >>
    /\ prev' = chip8
    /\ prev2' = CpuOnly(prev)
    /\ k_' = 0
    /\ held' = IF IsScan(chip8)
               THEN [any |-> Pressed(chip8.KEYS), all |-> Pressed(chip8.KEYS)]
               ELSE [any |-> {}, all |-> {}]
    /\ begun' = IF driver # "playing"
                THEN [begun EXCEPT !.cpu = IF @ < 2 THEN @ + 1 ELSE @]
                ELSE begun
    /\ UNCHANGED <<queueVars, timerVars, driverVars>>
    /\ UNCHANGED rom_bytes

\* one pass of the loop of Fx0A; when the loop has ended the cycle ends too,
\* with  self.V[x] = k_  and the common  self.PC += 2 , or with the return
LD_Vx_K_pass ==
    /\ EmulationThread = "scan"
    /\ \E r \in {LD_Vx_K(chip8, (Fetch(prev) \div 256) % 16, k_)} :
          /\ chip8' = IF r.flow = "next"
                      THEN [r.c EXCEPT !.PC = r.c.PC + 2] ELSE r.c
          /\ out' = r.flow
          /\ EmulationThread' = IF r.flow = "scan" THEN "scan" ELSE "running"
          /\ k_' = IF r.flow = "scan" THEN k_ + 1 ELSE 0
    /\ UNCHANGED <<prev, prev2, calls, ret, held, queueVars, timerVars,
                   driverVars, rom_bytes, begun>>

\* the operator continues from the debugger: the cycle ends with PC += 2
PdbContinue ==
    /\ EmulationThread = "pdb"
    /\ chip8' = [chip8 EXCEPT !.PC = chip8.PC + 2]
    /\ out' = "continued"
    /\ EmulationThread' = "running"
    /\ UNCHANGED <<prev, prev2, calls, ret, k_, held, queueVars, timerVars,
                   driverVars>>
    /\ UNCHANGED rom_bytes
    /\ UNCHANGED begun

\* the operator quits the debugger: BdbQuit ends the thread
PdbQuit ==
    /\ EmulationThread = "pdb"
    /\ out' = "quit"
    /\ EmulationThread' = "dead"
    /\ UNCHANGED <<chip8, prev, prev2, calls, ret, k_, held, queueVars,
                   timerVars, driverVars>>
    /\ UNCHANGED rom_bytes
    /\ UNCHANGED begun

\* the top of the while loop of runDtStThread
DtStPoll ==
    /\ DtStThread = "loop"
    /\ IF bDtStThreadAbortQueue # << >>
       THEN /\ bDtStThreadAbortQueue' = Tail(bDtStThreadAbortQueue)
            /\ DtStThread' = IF Head(bDtStThreadAbortQueue)
                             THEN "exited" ELSE "polled"
       ELSE /\ DtStThread' = "polled"
            /\ UNCHANGED bDtStThreadAbortQueue
    /\ UNCHANGED <<chip8, EmulationThread, cycleVars,
                   bEmulationThreadAbortQueue, tmp, beep, driverVars>>
    /\ UNCHANGED rom_bytes
    /\ UNCHANGED begun

\* the rest of the iteration when 1/60 s has not elapsed: sleep
DtStSleep ==
    /\ DtStThread = "polled"
    /\ DtStThread' = "loop"
    /\ UNCHANGED <<chip8, EmulationThread, cycleVars, queueVars, tmp, beep,
                   driverVars>>
    /\ UNCHANGED rom_bytes
    /\ UNCHANGED begun

\* the Sound object after a call made on it ("none": no call)
Sound(b, call) ==
    [playing |-> IF call = "play" THEN TRUE
                 ELSE IF call = "stop" THEN FALSE
                 ELSE b.playing,
     call    |-> call,
     before  |-> b.playing]

\* The rest of the iteration when 1/60 s has elapsed is decrement_DT_ST,
\* step by step: the timer thread can be interrupted between any two of its
\* reads and writes of DT and ST, and the CPU thread's Fx15 / Fx18 / Fx07
\* (one write or one read each) run in between.  bBeepPlaying and the Sound
\* are touched by the timer thread alone.

timerRest == <<EmulationThread, cycleVars, queueVars, driverVars>>

\* if self.DT > 0:
DT_test ==
    /\ DtStThread = "polled"
    /\ DtStThread' = IF chip8.DT > 0 THEN "DT_load" ELSE "DT_zero"
    /\ begun' = IF driver \in {"join", "join2", "stopped"}
                THEN [begun EXCEPT !.timer = IF @ < 2 THEN @ + 1 ELSE @]
                ELSE begun
    /\ UNCHANGED <<chip8, tmp, beep, timerRest>>
    /\ UNCHANGED rom_bytes

\* self.DT -= 1, the load
DT_load ==
    /\ DtStThread = "DT_load"
    /\ tmp' = chip8.DT
    /\ DtStThread' = "DT_store"
    /\ UNCHANGED <<chip8, beep, timerRest>>
    /\ UNCHANGED rom_bytes
    /\ UNCHANGED begun

\* self.DT -= 1, the store
DT_store ==
    /\ DtStThread = "DT_store"
    /\ chip8' = [chip8 EXCEPT !.DT = tmp - 1]
    /\ tmp' = 0
    /\ DtStThread' = "ST_test"
    /\ UNCHANGED <<beep, timerRest>>
    /\ UNCHANGED rom_bytes
    /\ UNCHANGED begun

\* else: self.DT = 0x00
DT_zero ==
    /\ DtStThread = "DT_zero"
    /\ chip8' = [chip8 EXCEPT !.DT = 0]
    /\ DtStThread' = "ST_test"
    /\ UNCHANGED <<tmp, beep, timerRest>>
    /\ UNCHANGED rom_bytes
    /\ UNCHANGED begun

\* if self.ST > 0:
ST_test ==
    /\ DtStThread = "ST_test"
    /\ DtStThread' = IF chip8.ST > 0 THEN "beep_play" ELSE "beep_stop"
    /\ UNCHANGED <<chip8, tmp, beep, timerRest>>
    /\ UNCHANGED rom_bytes
    /\ UNCHANGED begun

BeepPlay ==
    /\ DtStThread = "beep_play"
    /\ \E r \in {beep_play(chip8)} :
          /\ chip8' = r.c
          /\ beep' = Sound(beep, r.call)
    /\ DtStThread' = "ST_load"
    /\ UNCHANGED <<tmp, timerRest>>
    /\ UNCHANGED rom_bytes
    /\ UNCHANGED begun

\* self.ST -= 1, the load
ST_load ==
    /\ DtStThread = "ST_load"
    /\ tmp' = chip8.ST
    /\ DtStThread' = "ST_store"
    /\ UNCHANGED <<chip8, beep, timerRest>>
    /\ UNCHANGED rom_bytes
    /\ UNCHANGED begun

\* self.ST -= 1, the store; decrement_DT_ST returns
ST_store ==
    /\ DtStThread = "ST_store"
    /\ chip8' = [chip8 EXCEPT !.ST = tmp - 1]
    /\ tmp' = 0
    /\ DtStThread' = "loop"
    /\ UNCHANGED <<beep, timerRest>>
    /\ UNCHANGED rom_bytes
    /\ UNCHANGED begun

BeepStop ==
    /\ DtStThread = "beep_stop"
    /\ \E r \in {beep_stop(chip8)} :
          /\ chip8' = r.c
          /\ beep' = Sound(beep, r.call)
    /\ DtStThread' = "ST_zero"
    /\ UNCHANGED <<tmp, timerRest>>
    /\ UNCHANGED rom_bytes
    /\ UNCHANGED begun

\* else: self.ST = 0x00; decrement_DT_ST returns
ST_zero ==
    /\ DtStThread = "ST_zero"
    /\ chip8' = [chip8 EXCEPT !.ST = 0]
    /\ DtStThread' = "loop"
    /\ UNCHANGED <<tmp, beep, timerRest>>
    /\ UNCHANGED rom_bytes
    /\ UNCHANGED begun

\* pygame.KEYDOWN / pygame.KEYUP handled by the main loop; the events that
\* follow a QUIT in the same batch are handled after stopAllThreads returned
KeyDown ==
    /\ keyEvents > 0
    /\ driver \in {"playing", "stopped"}
    /\ \E k \in KeysUsed :
          /\ chip8' = [chip8 EXCEPT !.KEYS[k] = TRUE]
          /\ held' = IF EmulationThread = "scan"
                     THEN [held EXCEPT !.any = @ \cup {k}] ELSE held
    /\ keyEvents' = keyEvents - 1
    /\ UNCHANGED <<EmulationThread, prev, prev2, out, calls, ret, k_,
                   queueVars, timerVars, driver, quitEvents>>
    /\ UNCHANGED rom_bytes
    /\ UNCHANGED begun

KeyUp ==
    /\ keyEvents > 0
    /\ driver \in {"playing", "stopped"}
    /\ \E k \in KeysUsed :
          /\ chip8.KEYS[k]
          /\ chip8' = [chip8 EXCEPT !.KEYS[k] = FALSE]
          /\ held' = IF EmulationThread = "scan"
                     THEN [held EXCEPT !.all = @ \ {k}] ELSE held
    /\ keyEvents' = keyEvents - 1
    /\ UNCHANGED <<EmulationThread, prev, prev2, out, calls, ret, k_,
                   queueVars, timerVars, driver, quitEvents>>
    /\ UNCHANGED rom_bytes
    /\ UNCHANGED begun

\* pygame.QUIT: stopAllThreads is called, and abortAllThreads makes its
\* first put.  The loop over the batch of events goes on after a QUIT, so a
\* second QUIT in the batch calls stopAllThreads again
abortEmulationThread ==
    /\ quitEvents > 0
    /\ driver \in {"playing", "stopped"}
    /\ quitEvents' = quitEvents - 1
    /\ bEmulationThreadAbortQueue' = Append(bEmulationThreadAbortQueue, TRUE)
    /\ driver' = "abort"
    /\ UNCHANGED <<chip8, EmulationThread, cycleVars, bDtStThreadAbortQueue,
                   timerVars, keyEvents>>
    /\ UNCHANGED rom_bytes
    /\ UNCHANGED begun

\* the second put of abortAllThreads
abortDtStThread ==
    /\ driver = "abort"
    /\ bDtStThreadAbortQueue' = Append(bDtStThreadAbortQueue, TRUE)
    /\ driver' = "join"
    /\ UNCHANGED <<chip8, EmulationThread, cycleVars,
                   bEmulationThreadAbortQueue, timerVars, keyEvents,
                   quitEvents>>
    /\ UNCHANGED rom_bytes
    /\ UNCHANGED begun

\* joinAllThreads returning from its first join without waiting
joinEmulationThread_nowait ==
    /\ driver = "join"
    /\ driver' = "join2"
    /\ UNCHANGED <<chip8, EmulationThread, cycleVars, queueVars, timerVars,
                   keyEvents, quitEvents>>
    /\ UNCHANGED rom_bytes
    /\ UNCHANGED begun

\* the first join of joinAllThreads returns when the CPU thread has ended
joinEmulationThread ==
    /\ driver = "join"
    /\ EmulationThread \in {"exited", "dead"}
    /\ driver' = "join2"
    /\ UNCHANGED <<chip8, EmulationThread, cycleVars, queueVars, timerVars,
                   keyEvents, quitEvents>>
    /\ UNCHANGED rom_bytes
    /\ UNCHANGED begun

\* the second join returns when the timer thread has ended, and with it
\* stopAllThreads
joinDtStThread ==
    /\ driver = "join2"
    /\ DtStThread = "exited"
    /\ driver' = "stopped"
    /\ UNCHANGED <<chip8, EmulationThread, cycleVars, queueVars, timerVars,
                   keyEvents, quitEvents>>
    /\ UNCHANGED rom_bytes
    /\ UNCHANGED begun

\* the steps of each thread
EmulationLoop == EmulationPoll \/ EmulationSleep \/ Cycle \/ LD_Vx_K_pass

DtStLoop ==
    \/ DtStPoll \/ DtStSleep
    \/ DT_test \/ DT_load \/ DT_store \/ DT_zero
    \/ ST_test \/ BeepPlay \/ ST_load \/ ST_store \/ BeepStop \/ ST_zero

\* the steps of the main thread inside stopAllThreads once a QUIT has called
\* it: the second put and the two joins.  The QUIT itself (with the first
\* put, abortEmulationThread) is the operator's and may never come
stopAllThreads == abortDtStThread \/ joinEmulationThread \/ joinDtStThread

Next ==
    \/ EmulationPoll \/ EmulationSleep \/ Cycle \/ LD_Vx_K_pass
    \/ PdbContinue \/ PdbQuit
    \/ DtStPoll \/ DtStSleep
    \/ DT_test \/ DT_load \/ DT_store \/ DT_zero
    \/ ST_test \/ BeepPlay \/ ST_load \/ ST_store \/ BeepStop \/ ST_zero
    \/ KeyDown \/ KeyUp
    \/ abortEmulationThread \/ abortDtStThread
    \/ joinEmulationThread \/ joinDtStThread

Spec == Init /\ [][Next]_vars

\* the same machine when the scheduler is fair to the two loops and to the
\* main thread while it is inside stopAllThreads; what the operator does
\* (closing the window, the keyboard, the debugger prompt) is not scheduled
\* by anything: the window may stay open for ever
LiveSpec ==
    Spec /\ WF_vars(EmulationLoop) /\ WF_vars(DtStLoop)
         /\ WF_vars(stopAllThreads)

TypeOK ==
    /\ EmulationThread \in {"running", "polled", "scan", "pdb", "exited",
                           "dead"}
    /\ k_ \in 0..15 /\ (k_ # 0 => EmulationThread = "scan")
    /\ held.all \subseteq held.any /\ held.any \subseteq 0..15
    /\ driver \in {"playing", "abort", "join", "join2", "stopped"}
    /\ beep.playing \in BOOLEAN /\ beep.call \in {"none", "play", "stop"}
    /\ chip8.PC \in Nat /\ chip8.I \in Nat
    /\ \A i \in 0..15 : chip8.V[i] \in -1..255
    /\ \A a \in DOMAIN chip8.mem.nz : chip8.mem.nz[a] \in 1..255

\* every cell DRW writes exists in the 48 x 80 array, so no draw raises
DisplayInBounds ==
    \A p \in chip8.DISPLAY :
        /\ p[1] >= 0 /\ p[1] < disp_h_px + extra_h
        /\ p[2] >= 0 /\ p[2] < disp_w_px + extra_w

----------------------------------------------------------------------------
(* Vocabulary of the properties: the last cycle, read from prev and out    *)

\* the last cycle fetched a word and ran its instruction to the end
Completed == out \in {"next", "return"} /\ FetchOk(prev)

W == Fetch(prev)

Wn3 == W \div 4096

Wx == (W \div 256) % 16

Wy == (W \div 16) % 16

Wn == W % 16

Wkk == W % 256

Wnnn == W % 4096

\* the stack entry Python's STACK[sp] reads
StackAt(c, sp) == c.STACK[IF sp < 0 THEN sp + 16 ELSE sp]

\* the fields only the CPU loop writes
CpuFields(c) == <<c.mem, c.V, c.I, c.SP, c.PC, c.STACK, c.DISPLAY>>

----------------------------------------------------------------------------
(* C1 *)

\* PC after the instruction word W, as the claim reads it for everything
\* but RET; retInc is what RET adds to the value read from the stack.
\* Fx0A leaves PC alone when no key was down during the cycle and adds 2
\* when one key was down all through it; when keys went down or up during
\* its loop it does the one or the other, as the loop ended
C1ExpectedPC(retInc) ==
    IF Wn3 = 1 \/ Wn3 = 2 THEN Wnnn
    ELSE IF W = 238 THEN StackAt(prev, prev.SP) + retInc
    ELSE IF Wn3 = 3 THEN (IF prev.V[Wx] = Wkk THEN prev.PC + 4 ELSE prev.PC + 2)
    ELSE IF Wn3 = 4 THEN (IF prev.V[Wx] # Wkk THEN prev.PC + 4 ELSE prev.PC + 2)
    ELSE IF Wn3 = 14 /\ Wkk = 158
         THEN (IF prev.KEYS[prev.V[Wx]] THEN prev.PC + 4 ELSE prev.PC + 2)
    ELSE IF Wn3 = 14 /\ Wkk = 161
         THEN (IF ~prev.KEYS[prev.V[Wx]] THEN prev.PC + 4 ELSE prev.PC + 2)
    ELSE IF Wn3 = 15 /\ Wkk = 10 /\ held.any = {} THEN prev.PC
    ELSE IF Wn3 = 15 /\ Wkk = 10 /\ held.all = {} /\ out = "return"
         THEN prev.PC
    ELSE prev.PC + 2

\* C1 as stated: after every completed cycle PC follows the update rule, RET
\* leaving PC = stack[SP] exactly.  Stated where the claim is at its
\* strongest: RET only with SP in 1..15 (an entry a CALL has pushed), and a
\* wait-for-key cycle that found no key read as not covered
C1_Original ==
    (/\ Completed
     /\ ~(Wn3 = 15 /\ Wkk = 10 /\ out = "return")
     /\ (W = 238 => prev.SP \in 1..15))
        => chip8.PC = C1ExpectedPC(0)

\* C1 amended: after every completed cycle PC follows the update rule of
\* the claim, except that RET leaves PC = stack[SP] + 2 (the stack holds the
\* address of the CALL itself and the common PC += 2 runs after RET), and a
\* wait-for-key cycle that found no key leaves PC unchanged
C1_PCRule == Completed => chip8.PC = C1ExpectedPC(2)

\* a RET that returned behind the CALL at 0x20E of the recursive ROM
C1_Witness ==
    /\ Completed /\ W = 238 /\ prev.SP = 2
    /\ StackAt(prev, prev.SP) = 526
    /\ chip8.PC = 528

----------------------------------------------------------------------------
(* C2 *)

\* C2 as stated: a RET that matches a CALL made at address a with stack
\* pointer s returns to a + 2 with SP = s, whatever s was
C2_RoundTrip ==
    (Completed /\ W = 238 /\ ret # << >>)
        => (chip8.PC = ret[1].a + 2 /\ chip8.SP = ret[1].s)

\* the part of C2 the code keeps: the same for a CALL that found the stack
\* pointer in 0..14
C2_RoundTripInRange ==
    (Completed /\ W = 238 /\ ret # << >> /\ ret[1].s \in 0..14)
        => (chip8.PC = ret[1].a + 2 /\ chip8.SP = ret[1].s)

\* the innermost of fifteen nested CALLs has returned
C2_InRangeReached ==
    /\ Completed /\ W = 238 /\ ret # << >> /\ ret[1].s = 14
    /\ chip8.PC = ret[1].a + 2 /\ chip8.SP = 14

----------------------------------------------------------------------------
(* C3 *)

\* number of CALLs pending when the last cycle started
PendingBefore == IF out = "return" /\ Wn3 = 2 THEN Len(calls) - 1 ELSE Len(calls)

\* C3 as stated: counted from the empty stack, each of the first sixteen
\* nested CALLs (those that find 0..15 CALLs pending) succeeds and stores
\* its return address
C3_SixteenNestedCalls ==
    (FetchOk(prev) /\ Wn3 = 2 /\ out # "none"
       /\ prev.SP = PendingBefore /\ PendingBefore <= 15)
        => (out = "return" /\ chip8.SP = prev.SP + 1
              /\ chip8.SP \in 0..15 /\ chip8.STACK[chip8.SP] = prev.PC)

\* what the code does: the fifteenth nested CALL is the last that succeeds
C3_FifteenNestedCalls ==
    (FetchOk(prev) /\ Wn3 = 2 /\ out # "none"
       /\ prev.SP = PendingBefore /\ PendingBefore <= 14)
        => (out = "return" /\ chip8.SP = prev.SP + 1
              /\ chip8.STACK[chip8.SP] = prev.PC)

----------------------------------------------------------------------------
(* C4 *)

\* C4 as stated: the stack pointer stays in 0..15 in every reachable state
C4_SPInvariant == chip8.SP \in 0..15

\* C4, second half: a RET executed on the empty stack is a fault (the cycle
\* does not complete) and changes none of the CPU's fields
C4_RetOnEmptyFaults ==
    (FetchOk(prev) /\ W = 238 /\ prev.SP = 0 /\ out # "none")
        => (out \notin {"next", "return"}
              /\ CpuFields(chip8) = CpuFields(prev))

----------------------------------------------------------------------------
(* DRW: C5 .. C9 *)

\* the visible 64 x 32 region of a machine's display
VisibleRegion(c) == { p \in c.DISPLAY : p[1] \in 0..31 /\ p[2] \in 0..63 }

\* the last cycle executed DRW Vx,Vy,n
IsDraw == Completed /\ Wn3 = 13

DrawR0 == prev.V[Wy] % 32

DrawC0 == prev.V[Wx] % 64

\* bit 7-j of sprite byte r, read from mem[I + r] (beyond the end of memory
\* there is no byte and nothing to toggle)
SpriteBitSet(r, j) ==
    /\ prev.I + r < prev.mem.len
    /\ (MemRead(prev.mem, prev.I + r) \div Pow2(7 - j)) % 2 = 1

\* the visible cells the sprite toggles when row r lands on row (r0+r) mod 32
\* and column j on column (c0+j) mod 64
SpriteCells ==
    { <<(DrawR0 + p[1]) % 32, (DrawC0 + p[2]) % 64>> :
        p \in { q \in (0..(Wn - 1)) \X (0..7) : SpriteBitSet(q[1], q[2]) } }

\* C5: a DRW whose sprite does not pass the bottom edge (r0 + n <= 32) XORs
\* the sprite into the visible region exactly once, columns wrapping at 64,
\* and changes no other visible cell
C5_DrawNoBottomOverflow ==
    (IsDraw /\ DrawR0 + Wn <= 32)
        => VisibleRegion(chip8) = SymDiff(VisibleRegion(prev), SpriteCells)

\* Vx = 60, Vy = 0, n = 8, all-1 bytes on the empty display: columns 60-63
\* and 0-3 of rows 0-7 are set, nothing else
C5_Witness ==
    /\ IsDraw /\ prev.V[Wx] = 60 /\ prev.V[Wy] = 0 /\ Wn = 8
    /\ prev.DISPLAY = {}
    /\ VisibleRegion(chip8) = (0..7) \X ((60..63) \cup (0..3))

\* C6 as stated: a DRW whose sprite passes the bottom edge (r0 + n > 32)
\* XORs every sprite row into the visible region exactly once, row r landing
\* on row (r0 + r) mod 32
C6_VerticalWrap ==
    (IsDraw /\ DrawR0 + Wn > 32)
        => VisibleRegion(chip8) = SymDiff(VisibleRegion(prev), SpriteCells)

\* C7: after every DRW, VF = 1 exactly when a visible cell that was set
\* before the instruction is unset after it, and VF = 0 otherwise
C7_CollisionFlag ==
    IsDraw => chip8.V[15] =
                 (IF \E p \in VisibleRegion(prev) : p \notin VisibleRegion(chip8)
                  THEN 1 ELSE 0)

\* a DRW that found VF = 1, erased cells of the padding only, and left VF = 0
C7_Witness ==
    /\ IsDraw /\ prev.V[15] = 1 /\ chip8.V[15] = 0
    /\ \E p \in prev.DISPLAY : p[2] >= 64 /\ p \notin chip8.DISPLAY
    /\ VisibleRegion(chip8) # VisibleRegion(prev)

\* the last two cycles executed the same DRW word at consecutive addresses,
\* with the same I, the same memory and the same origin values Vx, Vy
SameDrawTwice ==
    /\ IsDraw
    /\ FetchOk(prev2) /\ Fetch(prev2) = W
    /\ prev.PC = prev2.PC + 2
    /\ prev.I = prev2.I /\ prev.mem = prev2.mem
    /\ prev.V[Wx] = prev2.V[Wx] /\ prev.V[Wy] = prev2.V[Wy]

\* C8: the second of two identical DRWs restores the visible region to its
\* content before the first
C8_DrawInvolution ==
    SameDrawTwice => VisibleRegion(chip8) = VisibleRegion(prev2)

\* 15 rows drawn twice over a non-empty display at an origin where the
\* sprite passes both the right and the bottom edge
C8_Witness ==
    /\ SameDrawTwice /\ Wn = 15 /\ DrawC0 > 56 /\ DrawR0 + Wn > 32
    /\ VisibleRegion(prev2) # {}
    /\ VisibleRegion(prev) # VisibleRegion(prev2)
    /\ VisibleRegion(chip8) = VisibleRegion(prev2)

\* C9 as stated: the second of two identical DRWs always yields VF = 1
C9_Original == SameDrawTwice => chip8.V[15] = 1

\* C9 amended: the second of two identical DRWs yields VF = 1 exactly when
\* the first one turned on a visible cell (unset before it, set after it),
\* and VF = 0 otherwise
C9_SecondDraw ==
    SameDrawTwice =>
        chip8.V[15] =
            (IF \E p \in VisibleRegion(prev) : p \notin VisibleRegion(prev2)
             THEN 1 ELSE 0)

\* a second draw that erased what the first had drawn, and one has VF = 1
C9_Witness ==
    /\ SameDrawTwice /\ chip8.V[15] = 1
    /\ \E p \in VisibleRegion(prev) : p \notin VisibleRegion(prev2)
    /\ VisibleRegion(chip8) = VisibleRegion(prev2)

----------------------------------------------------------------------------
(* C10 *)

\* the last cycle executed Fx0A
IsWaitKey == Completed /\ Wn3 = 15 /\ Wkk = 10

OnlyKey(keys, k) == \A j \in 0..15 : keys[j] <=> (j = k)

\* C10: a cycle that executes Fx0A while no key is pressed (none at any
\* instant of the cycle) changes no field of the CPU (so the next cycle
\* executes it again); one that executes it while exactly one key k is
\* pressed (k and no other key, all through the cycle) sets Vx = k and
\* advances PC by 2
C10_WaitForKey ==
    /\ (IsWaitKey /\ held.any = {}) => CpuFields(chip8) = CpuFields(prev)
    /\ \A k \in 0..15 :
          (IsWaitKey /\ held.any = {k} /\ held.all = {k})
              => (chip8.V[Wx] = k /\ chip8.PC = prev.PC + 2)

\* Fx0A spun with no key pressed, then found key 15 alone and stored it in V3
C10_Witness ==
    /\ IsWaitKey /\ held.any = {15} /\ held.all = {15}
    /\ OnlyKey(prev.KEYS, 15)
    /\ prev2.PC = prev.PC /\ FetchOk(prev2) /\ Fetch(prev2) = W
    /\ prev.V[Wx] = 7 /\ chip8.V[Wx] = 15
    /\ chip8.PC = prev.PC + 2

----------------------------------------------------------------------------
(* C11 *)

\* C11 as stated: whatever the interleaving of the reads and writes of the
\* timer thread's decrement_DT_ST with the CPU thread's Fx15 / Fx18, DT and
\* ST stay within 0..255
C11_TimerFloor == chip8.DT \in 0..255 /\ chip8.ST \in 0..255

\* what the code keeps: a timer is negative only after a decrement whose
\* test and load were separated by a write of the CPU thread, and never
\* below -1
C11_NeverBelowMinusOne == chip8.DT >= -1 /\ chip8.ST >= -1

----------------------------------------------------------------------------
(* C12 *)

\* C12: the calls on the Sound alternate, beginning with a start: play is
\* never called while it is playing, stop never while it is silent
C12_AudioAlternates ==
    /\ beep.call = "play" => ~beep.before
    /\ beep.call = "stop" => beep.before

\* the Sound was started by an earlier tick and the last timer step stopped
\* it, after the CPU thread had written ST
C12_Witness ==
    /\ beep.call = "stop" /\ beep.before /\ ~beep.playing
    /\ ~chip8.bBeepPlaying
    /\ out # "none" /\ FetchOk(prev) /\ Wn3 = 15 /\ Wkk = 24

----------------------------------------------------------------------------
(* C13 *)

\* C13 as stated: in every reachable state the cue is playing exactly when
\* ST > 0
C13_AudioTracksST == chip8.bBeepPlaying = (chip8.ST > 0)

----------------------------------------------------------------------------
(* C14 *)

Ended(t) == t \in {"exited", "dead"}

\* C14 as stated: once abortAllThreads has made both puts, the CPU loop and
\* the timer loop each eventually end
C14_CancellationLiveness ==
    (driver = "join") ~> (Ended(EmulationThread) /\ Ended(DtStThread))

\* what the code keeps: the timer loop ends, and the CPU loop ends or waits
\* at the debugger prompt
C14_EndsUnlessInDebugger ==
    (driver = "join")
        ~> ((Ended(EmulationThread) \/ EmulationThread = "pdb")
               /\ Ended(DtStThread))

----------------------------------------------------------------------------
(* C15 *)

\* the fields the two loops write
LoopFields(c) ==
    <<c.mem, c.V, c.I, c.SP, c.PC, c.STACK, c.DISPLAY, c.DT, c.ST,
      c.bBeepPlaying>>

\* C15 as stated: when stopAllThreads has returned both loops have ended,
\* and from then on no step of either loop occurs and no shared machine
\* state changes, the key states included
C15_Original ==
    /\ [](driver = "stopped"
             => (Ended(EmulationThread) /\ Ended(DtStThread)))
    /\ [][driver = "stopped"
             => (/\ chip8' = chip8
                 /\ UNCHANGED <<EmulationThread, DtStThread, cycleVars,
                                tmp, beep>>)]_vars

\* C15 amended: when stopAllThreads has returned both loops have ended, and
\* from then on no step of either loop occurs and nothing the loops write
\* changes.  The key states can still change: the main loop goes on to the
\* KEYDOWN / KEYUP events that follow the QUIT in the same batch
C15_ShutdownOrdering ==
    /\ [](driver = "stopped"
             => (Ended(EmulationThread) /\ Ended(DtStThread)))
    /\ [][driver = "stopped"
             => (/\ LoopFields(chip8') = LoopFields(chip8)
                 /\ UNCHANGED <<EmulationThread, DtStThread, cycleVars,
                                tmp, beep>>)]_vars

\* stopAllThreads has returned while the program still had instructions to
\* run and the sound timer was still counting
C15_Witness ==
    /\ driver = "stopped"
    /\ EmulationThread = "exited" /\ DtStThread = "exited"
    /\ FetchOk(chip8) /\ chip8.ST > 0 /\ chip8.bBeepPlaying

----------------------------------------------------------------------------
(* C16 *)

\* the fields the claim gives to the timer loop
TimerFields(c) == <<c.DT, c.ST, c.bBeepPlaying>>

\* C16 as stated: a step of the CPU thread changes neither DT, ST, the audio
\* state nor the keys; a step of the timer thread changes neither a CPU
\* field nor the keys; a key event changes the keys only.  (Every step of a
\* thread moves that thread's position.)
C16_SingleWriter ==
    [][/\ EmulationThread' # EmulationThread
            => (TimerFields(chip8') = TimerFields(chip8)
                  /\ chip8'.KEYS = chip8.KEYS)
       /\ DtStThread' # DtStThread
            => (CpuFields(chip8') = CpuFields(chip8)
                  /\ chip8'.KEYS = chip8.KEYS)
       /\ keyEvents' # keyEvents
            => (CpuFields(chip8') = CpuFields(chip8)
                  /\ TimerFields(chip8') = TimerFields(chip8))]_vars

\* what the code keeps: everything but the CPU thread's writes of DT and ST
C16_SingleWriterButTimers ==
    [][/\ EmulationThread' # EmulationThread
            => (chip8'.bBeepPlaying = chip8.bBeepPlaying
                  /\ chip8'.KEYS = chip8.KEYS)
       /\ DtStThread' # DtStThread
            => (CpuFields(chip8') = CpuFields(chip8)
                  /\ chip8'.KEYS = chip8.KEYS)
       /\ keyEvents' # keyEvents
            => (CpuFields(chip8') = CpuFields(chip8)
                  /\ TimerFields(chip8') = TimerFields(chip8))]_vars

----------------------------------------------------------------------------
(* C17 *)

\* the word matches no rule of the instruction table
Unhandled(w) ==
    LET n3 == w \div 4096
        n  == w % 16
        kk == w % 256
    IN \/ n3 \in {5, 9, 11}
       \/ n3 = 8 /\ n \notin {0, 2, 3, 4, 5, 6}
       \/ n3 = 14 /\ kk \notin {158, 161}
       \/ n3 = 15 /\ kk \notin {7, 10, 21, 24, 30, 51, 101}

\* C17 as stated: a cycle that fetched an unhandled word changed no CPU
\* field, and after it the CPU thread changes nothing and runs no more
C17_UnhandledTerminal ==
    /\ []((out \in {"pdb", "quit"} /\ FetchOk(prev) /\ Unhandled(W))
             => CpuFields(chip8) = CpuFields(prev))
    /\ [][EmulationThread = "pdb"
             => (CpuFields(chip8') = CpuFields(chip8)
                   /\ EmulationThread' \in {"pdb", "dead", "exited"})]_vars

\* what the code keeps: the cycle that fetched an unhandled word changed no
\* CPU field before it stopped at the debugger prompt, and every word that
\* stopped there is unhandled
C17_UnhandledStops ==
    /\ (out # "none" /\ FetchOk(prev) /\ Unhandled(W))
           => out \in {"pdb", "continued", "quit"}
    /\ out \in {"pdb", "quit"}
           => (Unhandled(W) /\ CpuFields(chip8) = CpuFields(prev))

----------------------------------------------------------------------------
(* C18 *)

\* C18 as stated: after a cycle that failed, the CPU's fields are what they
\* were before it
C18_NoPartialApplication ==
    out \in {"IndexError", "KeyError"}
        => CpuFields(chip8) = CpuFields(prev)

\* what the code keeps: a failed fetch and a failed key lookup change nothing
C18_FetchAndKeyFailuresClean ==
    (out = "KeyError" \/ (out = "IndexError" /\ ~FetchOk(prev)))
        => CpuFields(chip8) = CpuFields(prev)

----------------------------------------------------------------------------
(* C19 *)

\* the addresses a run of  for a in as: mem[a]  attempts: each one up to and
\* including the first that does not exist
Upto(c, as) ==
    { as[i] : i \in { j \in 1..Len(as) :
                        \A k \in 1..(j - 1) : MemOk(c.mem, as[k]) } }

\* the memory addresses the cycle that starts from machine c attempts
Attempted(c) ==
    Upto(c, <<c.PC, c.PC + 1>>)
      \cup (IF ~FetchOk(c) THEN {}
            ELSE LET w  == Fetch(c)
                     n3 == w \div 4096
                     x  == (w \div 256) % 16
                     n  == w % 16
                     kk == w % 256
                 IN IF n3 = 15 /\ kk = 51
                    THEN Upto(c, <<c.I, c.I + 1, c.I + 2>>)
                    ELSE IF n3 = 15 /\ kk = 101
                    THEN Upto(c, [l \in 1..(x + 1) |-> c.I + l - 1])
                    ELSE IF n3 = 13
                    THEN { a \in c.I..(c.I + n - 1) : MemOk(c.mem, a) }
                    ELSE {})

\* C19 as stated: every address the last cycle attempted lies in 0..4095
C19_MemoryBounds ==
    out # "none" => \A a \in Attempted(prev) : a \in 0..4095

\* what the code keeps: no byte is read or written outside the bytearray
\* (an attempt beyond it raises IndexError), and every cycle that attempted
\* an address beyond it failed
C19_OutOfRangeFails ==
    (out # "none" /\ \E a \in Attempted(prev) : ~MemOk(prev.mem, a))
        => (out = "IndexError" /\ prev.mem.len = chip8.mem.len)

----------------------------------------------------------------------------
(* C20 *)

\* the last cycle executed 8xy5
IsSub == Completed /\ Wn3 = 8 /\ Wn = 5

\* C20 as stated: 8xy5 with x in 0..14 and y in 0..15 leaves
\* Vx = (a - b) mod 256 and VF = 1 if a > b else 0, for a = Vx and b = Vy
\* before the instruction
C20_Sub ==
    (IsSub /\ Wx \in 0..14)
        => /\ chip8.V[Wx] = (prev.V[Wx] - prev.V[Wy]) % 256
           /\ chip8.V[15] = (IF prev.V[Wx] > prev.V[Wy] THEN 1 ELSE 0)

\* what the code keeps: the same for y in 0..14
C20_SubYNotF ==
    (IsSub /\ Wx \in 0..14 /\ Wy \in 0..14)
        => /\ chip8.V[Wx] = (prev.V[Wx] - prev.V[Wy]) % 256
           /\ chip8.V[15] = (IF prev.V[Wx] > prev.V[Wy] THEN 1 ELSE 0)

----------------------------------------------------------------------------
(* C21 *)

\* the last cycle executed 8xy4
IsAdd == Completed /\ Wn3 = 8 /\ Wn = 4

\* C21: 8xy4 with x in 0..14 and y in 0..15 leaves Vx = (a + b) mod 256 and
\* VF = 1 if a + b > 255 else 0, for a = Vx and b = Vy before the
\* instruction, and changes no register other than Vx and VF
C21_Add ==
    (IsAdd /\ Wx \in 0..14)
        => /\ chip8.V[Wx] = (prev.V[Wx] + prev.V[Wy]) % 256
           /\ chip8.V[15] = (IF prev.V[Wx] + prev.V[Wy] > 255 THEN 1 ELSE 0)
           /\ \A r \in (0..14) \ {Wx} : chip8.V[r] = prev.V[r]

\* ADD V0,VF with V0 = 10 and VF = 250: V0 = 4 and VF = 1
C21_Witness ==
    /\ IsAdd /\ Wx = 0 /\ Wy = 15
    /\ prev.V[0] = 10 /\ prev.V[15] = 250
    /\ chip8.V[0] = 4 /\ chip8.V[15] = 1

----------------------------------------------------------------------------
(* C22 *)

\* C22: a machine built from a ROM of at most 3584 bytes, before its first
\* cycle, has exactly 4096 memory cells, the ROM bytes at 0x200 onward and 0
\* in every other cell (no cell outside the ROM's range holds a nonzero
\* byte), PC = 0x200, SP = 0, I = 0, DT = ST = 0 and all registers 0
C22_RomLoadRoundTrip ==
    (out = "none" /\ Len(rom_bytes) <= 3584)
        => /\ chip8.mem.len = 4096
           /\ \A i \in 1..Len(rom_bytes) :
                 MemRead(chip8.mem, 512 + i - 1) = rom_bytes[i]
           /\ \A a \in DOMAIN chip8.mem.nz :
                 a >= 512 /\ a < 512 + Len(rom_bytes)
           /\ chip8.PC = 512 /\ chip8.SP = 0 /\ chip8.I = 0
           /\ chip8.DT = 0 /\ chip8.ST = 0
           /\ \A i \in 0..15 : chip8.V[i] = 0

\* the 3584-byte ROM loaded: its first byte at 0x200, its last at 0xFFF
C22_Witness ==
    /\ out = "none" /\ Len(rom_bytes) = 3584
    /\ rom_bytes[1] = 18 /\ rom_bytes[3584] = 7
    /\ MemRead(chip8.mem, 512) = 18 /\ MemRead(chip8.mem, 4095) = 7
    /\ chip8.mem.len = 4096

----------------------------------------------------------------------------
(* C23 *)

\* the last cycle executed Fx1E
IsAddI == Completed /\ Wn3 = 15 /\ Wkk = 30

\* C23 as stated: I is an unsigned 16-bit value in every reachable state,
\* and Fx1E adds modulo 2^16
C23_IndexWidth ==
    /\ chip8.I \in 0..65535
    /\ IsAddI => chip8.I = (prev.I + prev.V[Wx]) % 65536

\* what the code does: Fx1E adds without a mask, and I is never negative
C23_IndexGrows ==
    /\ chip8.I >= 0
    /\ IsAddI => chip8.I = prev.I + prev.V[Wx]

----------------------------------------------------------------------------
(* C24 *)

\* C24: once the abort signal has been put in its queue, a loop begins at
\* most one more emulateCycle (CPU loop) or decrement_DT_ST (timer loop):
\* never a second one
C24_BoundedResponse == begun.cpu <= 1 /\ begun.timer <= 1

\* both loops had polled their queues when the signals were put: each began
\* one more cycle, found the signal at its next poll and left its loop
C24_Witness ==
    /\ begun.cpu = 1 /\ begun.timer = 1
    /\ EmulationThread = "exited" /\ DtStThread = "exited"
    /\ bEmulationThreadAbortQueue = << >> /\ bDtStThreadAbortQueue = << >>

====
